---- MODULE Spec2Model ----
(***************************************************************************)
(* Model of the expression parser of kappa (src/expr.rs): the recursive    *)
(* descent over a token cursor, run one call/return step at a time on an   *)
(* explicit call stack.  The lexer (crate::lexer) is an external           *)
(* collaborator; its cursor operations are modelled from their contract.   *)
(***************************************************************************)
EXTENDS Integers, Sequences, FiniteSets, TLC

VARIABLES
    input,      \* the token stream handed to the lexer (never changes)
    pos,        \* the cursor: index of the current token, Len(input)+1 when exhausted
    stack,      \* the call stack of the parser, innermost frame last
    ret,        \* the Option<Expr> returned by the call that returned last
    status,     \* "running", "returned" (parse_expr returned) or "halted" (fatal error)
    reported    \* the diagnostics reported through the lexer, in order

vars == <<input, pos, stack, ret, status, reported>>

(***************************************************************************)
(* Bounds                                                                  *)
(***************************************************************************)
MaxLen == 4     \* every token sequence of at most this length is parsed
MaxArgs == 2    \* call inputs carry at most this many arguments

(***************************************************************************)
(* Tokens.  Option<T> is a sequence of length at most one.                 *)
(***************************************************************************)
None == <<>>
Some(x) == <<x>>

Tok(k) == [kind |-> k, int_val |-> None, str_val |-> None, bool_val |-> None]
IntTok(n) == [kind |-> "TOK_INT", int_val |-> Some(n), str_val |-> None, bool_val |-> None]
StrTok(s) == [kind |-> "TOK_STR_LIT", int_val |-> None, str_val |-> Some(s), bool_val |-> None]
BoolTok(b) == [kind |-> "TOK_BOOL", int_val |-> None, str_val |-> None, bool_val |-> Some(b)]
IdenTok(s) == [kind |-> "TOK_IDEN", int_val |-> None, str_val |-> Some(s), bool_val |-> None]

(***************************************************************************)
(* The AST                                                                 *)
(***************************************************************************)
Str(x) == [kind |-> "Str", str |-> x]
Int_(x) == [kind |-> "Int", int |-> x]
Bool(x) == [kind |-> "Bool", bool |-> x]
Var(x) == [kind |-> "Var", name |-> x]
Null == [kind |-> "Null"]

BinExpr_new(lhs, op, rhs) == [kind |-> "Bin", lhs |-> lhs, op |-> op, rhs |-> rhs]

CallExpr_new(name, args) == [kind |-> "Call", name |-> name, args |-> args]

get_op_prec_flat(op) ==
    IF op \in {"*", "/", "+", "-"} THEN 20 ELSE -1
get_op_prec_any(op) ==
    CASE op = "*" -> 40
      [] op = "/" -> 40
      [] op = "+" -> 20
      [] op = "-" -> 20
      [] OTHER -> 0
get_op_prec(op) ==
    CASE op = "*" -> 40
      [] op = "/" -> 40
      [] op = "+" -> 20
      [] op = "-" -> 20
      [] OTHER -> -1

(***************************************************************************)
(* The lexer's cursor                                                      *)
(***************************************************************************)
empty(p) == p > Len(input)
front(p) == input[p]
eat(p) == p + 1
is_token_kind(p, k) == front(p).kind = k
\* eat() on an exhausted cursor has no stated contract: it either leaves the
\* cursor where it is or fails as a usage error.
EatExhausted == {"noop", "fail"}

UsageError(what) == [tier |-> "usage", expected |-> what]
SyntaxError(what) == [tier |-> "syntax", expected |-> what]
assert_token_fails(p) == empty(p)
assert_token_kind_fails(p, k) == empty(p) \/ ~is_token_kind(p, k)

(***************************************************************************)
(* Inputs                                                                  *)
(***************************************************************************)
BinOps == {"+", "-", "*", "/"}
\* single-token primaries: a variable or a literal
Prims == {IdenTok("a"), IdenTok("b"), IntTok(1), StrTok("s"), BoolTok(TRUE)}
\* the tokens of the exhaustively enumerated short inputs
Alphabet == {IdenTok("a"), IntTok(1), Tok("("), Tok(")"), Tok(","),
             Tok("+"), Tok("*"), Tok(";")}

\* the leaf a single-token primary stands for
Leaf(t) ==
    CASE t.kind = "TOK_INT" -> Int_(t.int_val[1])
      [] t.kind = "TOK_STR_LIT" -> Str(t.str_val[1])
      [] t.kind = "TOK_BOOL" -> Bool(t.bool_val[1])
      [] t.kind = "TOK_IDEN" -> Var(t.str_val[1])

Node(l, o, r) == [kind |-> "Bin", lhs |-> l, op |-> o, rhs |-> r]

ShortInputs == UNION {[1..n -> Alphabet] : n \in 0..MaxLen}
\* x op1 y op2 z
ChainInputs ==
    {<<x, Tok(o1), y, Tok(o2), z>> : x \in Prims, y \in Prims, z \in Prims,
                                     o1 \in BinOps, o2 \in BinOps}
\* ( x op1 y ) op2 z
GroupInputs ==
    {<<Tok("("), x, Tok(o1), y, Tok(")"), Tok(o2), z>> :
        x \in Prims, y \in Prims, z \in Prims, o1 \in BinOps, o2 \in BinOps}

\* well-formed argument expressions without a same-or-lower-precedence chain,
\* each with the tree it denotes
ArgPrims == {IdenTok("b"), IntTok(1)}
ArgShapes ==
    {[toks |-> <<x>>, tree |-> Leaf(x)] : x \in ArgPrims}
    \cup {[toks |-> <<x, Tok(o), IdenTok("c")>>,
           tree |-> Node(Leaf(x), o, Var("c"))] : x \in ArgPrims, o \in {"+", "*"}}
    \cup {[toks |-> <<IdenTok("b"), Tok(o1), IntTok(1), Tok(o2), IdenTok("c")>>,
           tree |-> Node(Var("b"), o1, Node(Int_(1), o2, Var("c")))] :
              o1 \in {"+", "-"}, o2 \in {"*", "/"}}
    \cup {[toks |-> <<Tok("("), IdenTok("b"), Tok("+"), IdenTok("c"), Tok(")")>>,
           tree |-> Node(Var("b"), "+", Var("c"))],
          [toks |-> <<IdenTok("g"), Tok("("), Tok(")")>>,
           tree |-> [kind |-> "Call", name |-> "g", args |-> <<>>]]}

ArgLists == UNION {[1..n -> ArgShapes] : n \in 0..MaxArgs}

RECURSIVE JoinArgs(_, _)
\* the tokens of a comma-separated argument list, from argument i on
JoinArgs(as, i) ==
    IF i > Len(as) THEN <<>>
    ELSE as[i].toks \o (IF i < Len(as) THEN <<Tok(",")>> ELSE <<>>) \o JoinArgs(as, i + 1)

CallTokens(as) == <<IdenTok("f"), Tok("(")>> \o JoinArgs(as, 1) \o <<Tok(")")>>
CallInputs == {CallTokens(as) : as \in ArgLists}

\* f ( x y ): two arguments with the comma missing
MissingCommaInputs ==
    {<<IdenTok("f"), Tok("("), x, y, Tok(")")>> : x \in Prims, y \in Prims}

Inputs == ShortInputs \cup ChainInputs \cup GroupInputs \cup CallInputs
          \cup MissingCommaInputs

(***************************************************************************)
(* Call frames.  entry is the cursor position at which the call was made,  *)
(* iter the position at which the current argument-loop iteration began;   *)
(* both only record history.                                               *)
(***************************************************************************)
Frame(fn, pc, p) ==
    [fn |-> fn, pc |-> pc, prec |-> 0, lhs |-> Null, bin_op |-> "", name |-> "",
     args |-> <<>>, entry |-> p, iter |-> p]

Top == stack[Len(stack)]
Callers == SubSeq(stack, 1, Len(stack) - 1)
At(fn, pc) == status = "running" /\ stack # <<>> /\ Top.fn = fn /\ Top.pc = pc

\* the innermost call returns v to its caller
Return(v, p) ==
    /\ stack' = Callers
    /\ ret' = v
    /\ pos' = p
    /\ status' = IF Len(stack) = 1 THEN "returned" ELSE "running"
    /\ UNCHANGED <<input, reported>>

\* the innermost call moves to pc and calls callee
Call(frame, callee, p) ==
    /\ stack' = Callers \o <<frame, callee>>
    /\ pos' = p
    /\ UNCHANGED <<input, ret, status, reported>>

\* the innermost call is replaced by (ends in a call of) callee
Become(callee, p) ==
    /\ stack' = Callers \o <<callee>>
    /\ pos' = p
    /\ UNCHANGED <<input, ret, status, reported>>

\* a diagnostic is reported and the parse stops
Halt(err) ==
    /\ status' = "halted"
    /\ reported' = Append(reported, err)
    /\ UNCHANGED <<input, pos, stack, ret>>

Init ==
    /\ input \in Inputs
    /\ pos = 1
    /\ stack = <<Frame("parse_expr", "start", 1)>>
    /\ ret = None
    /\ status = "running"
    /\ reported = <<>>

(***************************************************************************)
(* Literals (parse_primary_expr has asserted a current token)              *)
(***************************************************************************)
parse_num_expr(p) ==
    [expr |-> IF front(p).int_val = None THEN None
              ELSE Some(Int_(front(p).int_val[1])),
     pos |-> eat(p)]

parse_str_expr(p) ==
    [expr |-> IF front(p).str_val = None THEN None
              ELSE Some(Str(front(p).str_val[1])),
     pos |-> eat(p)]

parse_bool_expr(p) ==
    [expr |-> IF front(p).bool_val = None THEN None
              ELSE Some(Bool(front(p).bool_val[1])),
     pos |-> eat(p)]

(***************************************************************************)
(* parse_expr                                                              *)
(***************************************************************************)
\* the threshold parse_expr climbs from
ExprPrec == 0

ParseExpr ==
    /\ At("parse_expr", "start")
    /\ Call([Top EXCEPT !.pc = "primary"],
            Frame("parse_primary_expr", "start", pos), pos)

ParseExprBinRhs ==
    /\ At("parse_expr", "primary")
    /\ IF ret = None THEN Return(None, pos)
       ELSE Call([Top EXCEPT !.pc = "bin_rhs"],
                 [Frame("parse_bin_rhs", "start", pos) EXCEPT
                     !.prec = ExprPrec, !.lhs = ret[1]], pos)

ParseExprReturn ==
    /\ At("parse_expr", "bin_rhs")
    /\ Return(ret, pos)

(***************************************************************************)
(* parse_primary_expr                                                      *)
(***************************************************************************)
ParsePrimaryExpr ==
    /\ At("parse_primary_expr", "start")
    /\ IF assert_token_fails(pos) THEN Halt(UsageError("token"))
       ELSE CASE front(pos).kind = "TOK_INT" ->
                    Return(parse_num_expr(pos).expr, parse_num_expr(pos).pos)
              [] front(pos).kind = "TOK_STR_LIT" ->
                    Return(parse_str_expr(pos).expr, parse_str_expr(pos).pos)
              [] front(pos).kind = "TOK_BOOL" ->
                    Return(parse_bool_expr(pos).expr, parse_bool_expr(pos).pos)
              [] front(pos).kind = "TOK_IDEN" ->
                    Call([Top EXCEPT !.pc = "return"],
                         Frame("parse_iden", "start", pos), pos)
              [] front(pos).kind = "(" ->
                    Call([Top EXCEPT !.pc = "return"],
                         Frame("parse_paren_expr", "start", pos), pos)
              [] OTHER -> Return(Some(Null), pos)

ParsePrimaryExprReturn ==
    /\ At("parse_primary_expr", "return")
    /\ Return(ret, pos)

(***************************************************************************)
(* parse_paren_expr                                                        *)
(***************************************************************************)
ParseParenExpr ==
    /\ At("parse_paren_expr", "start")
    /\ IF assert_token_kind_fails(pos, "(") THEN Halt(SyntaxError("("))
       ELSE Call([Top EXCEPT !.pc = "close"],
                 Frame("parse_expr", "start", eat(pos)), eat(pos))

ParseParenExprClose_NoEat ==
    /\ At("parse_paren_expr", "close")
    /\ IF assert_token_kind_fails(pos, ")") THEN Halt(SyntaxError(")"))
       ELSE Return(ret, pos)

ParseParenExprClose ==
    /\ At("parse_paren_expr", "close")
    /\ IF assert_token_kind_fails(pos, ")") THEN Halt(SyntaxError(")"))
       ELSE Return(ret, eat(pos))

(***************************************************************************)
(* parse_bin_rhs.  Every path through the body of its loop returns.        *)
(***************************************************************************)
ParseBinRhs ==
    /\ At("parse_bin_rhs", "start")
    /\ IF empty(pos) THEN Return(Some(Top.lhs), pos)
       ELSE LET bin_op == front(pos).kind
                op_prec == get_op_prec(bin_op)
            IN  IF op_prec < Top.prec THEN Return(Some(Top.lhs), pos)
                ELSE Call([Top EXCEPT !.pc = "rhs", !.bin_op = bin_op],
                          Frame("parse_primary_expr", "start", eat(pos)), eat(pos))

ParseBinRhsRhs ==
    /\ At("parse_bin_rhs", "rhs")
    /\ IF ret = None THEN Halt(SyntaxError("expected a valid expr"))
       ELSE LET rhs == ret[1]
                op_prec == get_op_prec(Top.bin_op)
            IN  IF empty(pos)
                THEN Return(Some(BinExpr_new(Top.lhs, Top.bin_op, rhs)), pos)
                ELSE IF op_prec < get_op_prec(front(pos).kind)
                     THEN Call([Top EXCEPT !.pc = "climb"],
                               [Frame("parse_bin_rhs", "start", pos) EXCEPT
                                   !.prec = op_prec + 1, !.lhs = rhs], pos)
                     ELSE Return(Some(BinExpr_new(Top.lhs, Top.bin_op, rhs)), pos)

ParseBinRhsClimb ==
    /\ At("parse_bin_rhs", "climb")
    /\ IF ret = None THEN Halt(SyntaxError("expected a valid expr"))
       ELSE Return(Some(BinExpr_new(Top.lhs, Top.bin_op, ret[1])), pos)

(***************************************************************************)
(* parse_iden                                                              *)
(***************************************************************************)
push_front(args, x) == <<x>> \o args
push(args, x) == Append(args, x)

\* the innermost call goes on at pc with its fields updated
Goto(frame, p) ==
    /\ stack' = Callers \o <<frame>>
    /\ pos' = p
    /\ UNCHANGED <<input, ret, status, reported>>

ParseIden ==
    /\ At("parse_iden", "start")
    /\ IF assert_token_fails(pos) THEN Halt(UsageError("token"))
       ELSE LET name == front(pos).str_val[1]
                p1 == eat(pos)
            IN  IF empty(p1) \/ ~is_token_kind(p1, "(")
                THEN Return(Some(Var(name)), p1)
                ELSE Goto([Top EXCEPT !.pc = "args", !.name = name], eat(p1))

ParseIdenArgs ==
    /\ At("parse_iden", "args")
    /\ IF ~empty(pos) /\ ~is_token_kind(pos, ")")
       THEN Call([Top EXCEPT !.pc = "arg", !.iter = pos],
                 Frame("parse_expr", "start", pos), pos)
       ELSE IF ~empty(pos)
            THEN Return(Some(CallExpr_new(Top.name, Top.args)), eat(pos))
            ELSE \E outcome \in EatExhausted :
                    IF outcome = "noop"
                    THEN Return(Some(CallExpr_new(Top.name, Top.args)), pos)
                    ELSE Halt(UsageError("token"))

ParseIdenArg_NoAssert ==
    /\ At("parse_iden", "arg")
    /\ IF ret = None THEN Halt(SyntaxError("expected correct expr"))
       ELSE LET args == push(Top.args, ret[1])
            IN  IF ~empty(pos) /\ is_token_kind(pos, ")")
                THEN Return(Some(CallExpr_new(Top.name, args)), eat(pos))
                ELSE IF empty(pos) THEN Halt(SyntaxError(","))
                ELSE Goto([Top EXCEPT !.pc = "args", !.args = args], eat(pos))

ParseIdenArg_NoEat ==
    /\ At("parse_iden", "arg")
    /\ IF ret = None THEN Halt(SyntaxError("expected correct expr"))
       ELSE LET args == push(Top.args, ret[1])
            IN  IF ~empty(pos) /\ is_token_kind(pos, ")")
                THEN Return(Some(CallExpr_new(Top.name, args)), eat(pos))
                ELSE IF assert_token_kind_fails(pos, ",") THEN Halt(SyntaxError(","))
                ELSE Goto([Top EXCEPT !.pc = "args", !.args = args], pos)

ParseIdenArg ==
    /\ At("parse_iden", "arg")
    /\ IF ret = None THEN Halt(SyntaxError("expected correct expr"))
       ELSE LET args == push(Top.args, ret[1])
            IN  IF ~empty(pos) /\ is_token_kind(pos, ")")
                THEN Return(Some(CallExpr_new(Top.name, args)), eat(pos))
                ELSE IF assert_token_kind_fails(pos, ",") THEN Halt(SyntaxError(","))
                ELSE Goto([Top EXCEPT !.pc = "args", !.args = args], eat(pos))

Next ==
    \/ ParseExpr
    \/ ParseExprBinRhs
    \/ ParseExprReturn
    \/ ParsePrimaryExpr
    \/ ParsePrimaryExprReturn
    \/ ParseParenExpr
    \/ ParseParenExprClose
    \/ ParseBinRhs
    \/ ParseBinRhsRhs
    \/ ParseBinRhsClimb
    \/ ParseIden
    \/ ParseIdenArgs
    \/ ParseIdenArg

Spec == Init /\ [][Next]_vars

\* the parser is straight-line code: a step that can be taken is taken
LiveSpec == Init /\ [][Next]_vars /\ WF_vars(Next)

(***************************************************************************)
(* Properties                                                              *)
(***************************************************************************)
Returned == status = "returned"
Finished == status # "running"
Exhausted == pos = Len(input) + 1
prec_of(k) == IF k \in {"*", "/"} THEN 40 ELSE IF k \in {"+", "-"} THEN 20 ELSE -1

\* the left fold and the right nesting of x op1 y op2 z
LeftFold(x, o1, y, o2, z) == Node(Node(Leaf(x), o1, Leaf(y)), o2, Leaf(z))
RightNest(x, o1, y, o2, z) == Node(Leaf(x), o1, Node(Leaf(y), o2, Leaf(z)))

\* C1: for x op1 y op2 z with prec(op2) <= prec(op1), parse_expr returns
\* BinaryOp(BinaryOp(x, op1, y), op2, z).
C1_LeftAssociative ==
    (/\ input \in ChainInputs
     /\ prec_of(input[4].kind) <= prec_of(input[2].kind)
     /\ Finished)
    => /\ Returned
       /\ ret = Some(LeftFold(input[1], input[2].kind, input[3],
                              input[4].kind, input[5]))

\* C2: for x op1 y op2 z with op1 in {+,-} and op2 in {*,/}, parse_expr returns
\* BinaryOp(x, op1, BinaryOp(y, op2, z)) and leaves the cursor exhausted.
C2_HigherPrecedenceNestsRight ==
    (/\ input \in ChainInputs
     /\ input[2].kind \in {"+", "-"}
     /\ input[4].kind \in {"*", "/"}
     /\ Finished)
    => /\ Returned
       /\ ret = Some(RightNest(input[1], input[2].kind, input[3],
                               input[4].kind, input[5]))
       /\ Exhausted

C2_Witness ==
    /\ input = <<IdenTok("a"), Tok("+"), IdenTok("b"), Tok("*"), IntTok(1)>>
    /\ Returned
    /\ ret = Some(Node(Var("a"), "+", Node(Var("b"), "*", Int_(1))))
    /\ Exhausted

\* C3: whenever parse_bin_rhs called with threshold p returns, the cursor is
\* exhausted or its current token has precedence strictly below p.
C3_StopsBelowThreshold ==
    [][(/\ status = "running"
        /\ Top.fn = "parse_bin_rhs"
        /\ stack' = Callers)
       => \/ pos' > Len(input)
          \/ prec_of(input[pos'].kind) < Top.prec]_vars

\* C4: for f ( e1 , ... , en ) with well-formed arguments, parse_iden returns
\* Call(f, args) with the n argument trees in source order, and the cursor sits
\* just past the closing parenthesis.
C4_CallArgumentsInOrder ==
    (/\ Finished
     /\ input # <<>>
     /\ input[1] = IdenTok("f"))
    => \A as \in ArgLists :
          input = CallTokens(as)
          => /\ Returned
             /\ ret = Some([kind |-> "Call", name |-> "f",
                            args |-> [i \in 1..Len(as) |-> as[i].tree]])
             /\ Exhausted

C4_Witness ==
    /\ input = <<IdenTok("f"), Tok("("), IdenTok("b"), Tok(","),
                 IdenTok("b"), Tok("+"), IdenTok("c"), Tok(")")>>
    /\ Returned
    /\ ret = Some([kind |-> "Call", name |-> "f",
                   args |-> <<Var("b"), Node(Var("b"), "+", Var("c"))>>])
    /\ Exhausted

\* ( x op1 y ) op2 z parses as the left fold, with the cursor exhausted
C5_GroupResult ==
    (input \in GroupInputs /\ Finished)
    => /\ Returned
       /\ ret = Some(LeftFold(input[2], input[3].kind, input[4],
                              input[6].kind, input[7]))
       /\ Exhausted

\* a returning parse_paren_expr hands on the tree of its inner parse_expr and
\* consumes the closing parenthesis
C5_GroupIsTransparent ==
    [][(/\ status = "running"
        /\ Top.fn = "parse_paren_expr"
        /\ stack' = Callers)
       => /\ ret' = ret
          /\ input[pos].kind = ")"
          /\ pos' = pos + 1]_vars

Depth(i) ==
    Cardinality({j \in 1..i : input[j].kind = "("})
    - Cardinality({j \in 1..i : input[j].kind = ")"})
\* the ( at i has no matching ) before the stream ends
UnmatchedOpen(i) ==
    /\ input[i].kind = "("
    /\ \A k \in i..Len(input) : Depth(k) >= Depth(i)
\* the ) at i matches no (
UnmatchedClose(i) ==
    /\ input[i].kind = ")"
    /\ \A k \in 0..(i - 1) : Depth(k) > Depth(i)
Unmatched ==
    \/ \E i \in 1..Len(input) : UnmatchedOpen(i)
    \/ input # <<>> /\ UnmatchedClose(Len(input))

SyntaxErrorReported == \E i \in 1..Len(reported) : reported[i].tier = "syntax"

\* C6: an input with an unmatched ( or a trailing unmatched ) never makes
\* parse_expr return a tree without a syntax error having been reported.
C6_UnmatchedDelimiterReported ==
    (Unmatched /\ Returned) => SyntaxErrorReported

\* a parsed argument followed by a token that is neither ) nor , halts the
\* parse with the syntax error for the expected comma
C7_HaltsAtMissingComma ==
    [][(/\ At("parse_iden", "arg")
        /\ ret # None
        /\ ~empty(pos)
        /\ front(pos).kind \notin {")", ","})
       => /\ status' = "halted"
          /\ reported' = Append(reported, SyntaxError(","))
          /\ UNCHANGED <<stack, ret>>]_vars

\* f ( x y ) ends halted at that error, with no tree returned
C7_NoTreeForMissingComma ==
    (input \in MissingCommaInputs /\ Finished)
    => /\ status = "halted"
       /\ reported = <<SyntaxError(",")>>

\* C7: in a call argument list, a parsed argument followed by a token that is
\* neither ) nor , is a reported syntax error for the expected comma and the
\* parse halts: nothing is returned for f ( x y ).
C7_MissingCommaIsFatal == []C7_NoTreeForMissingComma /\ C7_HaltsAtMissingComma

C7_Witness ==
    /\ input = <<IdenTok("f"), Tok("("), IdenTok("a"), IdenTok("b"), Tok(")")>>
    /\ status = "halted"
    /\ reported = <<SyntaxError(",")>>
    /\ Top.fn = "parse_iden"
    /\ Top.args = <<>>

\* the functions of the recursion
Recursive == {"parse_expr", "parse_bin_rhs", "parse_paren_expr"}

\* a recursive call of a function is made further along the input than the
\* call of the same function it is nested in
RecursionAdvances ==
    \A i \in 1..Len(stack) : \A j \in (i + 1)..Len(stack) :
        (stack[i].fn \in Recursive /\ stack[j].fn = stack[i].fn)
        => stack[j].entry > stack[i].entry

\* an iteration of the argument loop that goes round again has moved the cursor
LoopAdvances ==
    [][(/\ At("parse_iden", "arg")
        /\ status' = "running"
        /\ Len(stack') = Len(stack)
        /\ stack'[Len(stack)].pc = "args")
       => pos' > Top.iter]_vars

\* C8: on every finite token sequence parse_expr finishes (returns or halts),
\* and every argument-loop iteration and every recursive call advances the
\* cursor before looping or recursing again.
C8_Terminates ==
    /\ <>Finished
    /\ []RecursionAdvances
    /\ LoopAdvances

C8_Witness ==
    /\ input = <<IdenTok("a"), Tok("("), Tok(","), Tok(";")>>
    /\ status = "halted"
    /\ Top.fn = "parse_iden"
    /\ Top.args = <<Null>>
    /\ pos = 4

RECURSIVE HasNullRhs(_)
\* some BinaryOp of the tree has Null as its right operand
HasNullRhs(e) ==
    CASE e.kind = "Bin" ->
            e.rhs.kind = "Null" \/ HasNullRhs(e.lhs) \/ HasNullRhs(e.rhs)
      [] e.kind = "Call" -> \E i \in 1..Len(e.args) : HasNullRhs(e.args[i])
      [] OTHER -> FALSE

\* C9: no returned tree contains a BinaryOp whose right operand is Null: a
\* missing or invalid right-hand side is a fatal syntax error.
C9_NoNullRightOperand ==
    (Returned /\ ret # None) => ~HasNullRhs(ret[1])

RECURSIVE OperatorsArithmetic(_)
\* every BinaryOp of the tree carries one of the four arithmetic operators
OperatorsArithmetic(e) ==
    CASE e.kind = "Bin" ->
            e.op \in BinOps /\ OperatorsArithmetic(e.lhs) /\ OperatorsArithmetic(e.rhs)
      [] e.kind = "Call" -> \A i \in 1..Len(e.args) : OperatorsArithmetic(e.args[i])
      [] OTHER -> TRUE

\* C10: every BinaryOp node of every returned tree carries one of + - * /, no
\* other token is consumed as a binary operator, and every threshold passed to
\* parse_bin_rhs is >= 0.
C10_OperatorsArithmetic ==
    /\ ret # None => OperatorsArithmetic(ret[1])
    /\ \A i \in 1..Len(stack) :
          stack[i].fn = "parse_bin_rhs"
          => /\ stack[i].prec >= 0
             /\ stack[i].pc # "start" => stack[i].bin_op \in BinOps

C10_Witness ==
    /\ Returned
    /\ ret # None
    /\ ret[1].kind = "Call"
    /\ Len(ret[1].args) = 2
    /\ ret[1].args[2].kind = "Bin"
    /\ ret[1].args[2].rhs.kind = "Bin"

====
